---------------------------- MODULE Spec2Model ----------------------------
(***************************************************************************)
(* Model of the Weather MCP server (src/src/weather_server.py): the        *)
(* Open-Meteo client (validation, one HTTP GET, mapping of the JSON        *)
(* response to the typed records) and the two tool handlers that format    *)
(* the result or turn every exception into an "Error: ..." string, and the *)
(* entry point (_parse_args and main).                                     *)
(*                                                                         *)
(* Representation.                                                         *)
(*  - Text is a TLA+ string; concatenation is \o, slicing is SubSeq.  The  *)
(*    source's two non-ASCII characters are written in ASCII: the en dash  *)
(*    as "-" and the degree sign as "deg".                                 *)
(*  - A Python float is a fixed-point number of tenths (52.5 is 525); the  *)
(*    values drawn have one decimal, for which FloatStr is Python's repr.  *)
(*  - A JSON value is a tagged record: [t |-> "int", i |-> 2],             *)
(*    [t |-> "float", f |-> 225], [t |-> "str", s |-> "63"],               *)
(*    [t |-> "bool", b |-> TRUE], [t |-> "null"], [t |-> "arr", a |-> seq],*)
(*    [t |-> "obj", o |-> function from keys to JSON values].              *)
(*  - A call that may raise yields an outcome: Ok(value) or                *)
(*    Raise(type, msg, status), type being the Python exception class.     *)
(***************************************************************************)
EXTENDS Integers, Sequences, FiniteSets, TLC

VARIABLES
    pc,        \* pc[c]: where handler invocation c stands: idle, awaiting, done
    args,      \* args[c]: the arguments the hosting framework passed to c
    requests,  \* requests[c]: the HTTP GETs (their params) c has issued
    reply,     \* reply[c]: what the upstream answered to c's request
    result,    \* result[c]: the string c returned
    raised,    \* raised[c]: TRUE when an exception escaped handler c
    logged,    \* logged[c]: level of the failure record c logged
    thrown,    \* thrown[c]: class of the exception the client raised to c
    returned,  \* returned[c]: the record the client returned to c
    client,    \* the module-level OpenMeteoClient instance _client
    argv,      \* sys.argv[1:], the command line of the server process
    environ,   \* os.environ, a function from variable names to strings
    server     \* how far main() has come, and what it has settled

vars == <<pc, args, requests, reply, result, raised, logged, thrown, returned, client,
          argv, environ, server>>

---------------------------------------------------------------------------
(* Bounds of the model.                                                    *)

\* Number of handler invocations that may be in flight at once.
NumCalls == 2

\* Longest per-day array an upstream response carries.
MaxDays == 3

---------------------------------------------------------------------------
(* Text helpers: Python's str() of an int and repr() of a float.           *)

Digits == <<"0", "1", "2", "3", "4", "5", "6", "7", "8", "9">>

RECURSIVE NatStr(_)
NatStr(n) ==
    IF n < 10 THEN Digits[n + 1]
    ELSE NatStr(n \div 10) \o Digits[(n % 10) + 1]

\* str(n) of a Python int
IntStr(n) == IF n < 0 THEN "-" \o NatStr(0 - n) ELSE NatStr(n)

\* repr(x) of a Python float held in tenths
FloatStr(x) ==
    LET a == IF x < 0 THEN 0 - x ELSE x
    IN  (IF x < 0 THEN "-" ELSE "") \o NatStr(a \div 10) \o "." \o NatStr(a % 10)

\* zero-padded two and four digit fields of isoformat()
Pad2(n) == IF n < 10 THEN "0" \o NatStr(n) ELSE NatStr(n)
Pad4(n) ==
    IF n < 10 THEN "000" \o NatStr(n)
    ELSE IF n < 100 THEN "00" \o NatStr(n)
    ELSE IF n < 1000 THEN "0" \o NatStr(n)
    ELSE NatStr(n)

CharAt(s, i) == SubSeq(s, i, i)

\* Python's "sub in s"
Contains(s, sub) ==
    \E i \in 1..(Len(s) - Len(sub) + 1) : SubSeq(s, i, i + Len(sub) - 1) = sub

\* Python's s.startswith(p)
StartsWith(s, p) == Len(s) >= Len(p) /\ SubSeq(s, 1, Len(p)) = p

IsDigit(ch) == \E d \in 1..10 : Digits[d] = ch
DigitVal(ch) == (CHOOSE d \in 1..10 : Digits[d] = ch) - 1
AllDigits(s) == Len(s) > 0 /\ \A i \in 1..Len(s) : IsDigit(CharAt(s, i))

RECURSIVE DigitsVal(_)
DigitsVal(s) ==
    IF Len(s) = 0 THEN 0
    ELSE 10 * DigitsVal(SubSeq(s, 1, Len(s) - 1)) + DigitVal(CharAt(s, Len(s)))

---------------------------------------------------------------------------
(* Outcomes of a call that may raise.                                      *)

Ok(v) == [ok |-> TRUE, val |-> v]
Raise(type, msg, status) == [ok |-> FALSE, type |-> type, msg |-> msg, status |-> status]

\* isinstance(exc, ValueError): json.JSONDecodeError derives from ValueError
IsValueError(e) == e.type \in {"ValueError", "JSONDecodeError"}
IsHTTPStatusError(e) == e.type = "HTTPStatusError"

---------------------------------------------------------------------------
(* WMO weather code mapping.                                               *)

WMO_CODES ==
    [c \in {0, 1, 2, 3, 45, 48, 51, 53, 55, 56, 57, 61, 63, 65, 66, 67,
            71, 73, 75, 77, 80, 81, 82, 85, 86, 95, 96, 99} |->
        CASE c = 0 -> "Clear sky"
          [] c = 1 -> "Mainly clear"
          [] c = 2 -> "Partly cloudy"
          [] c = 3 -> "Overcast"
          [] c = 45 -> "Foggy"
          [] c = 48 -> "Depositing rime fog"
          [] c = 51 -> "Light drizzle"
          [] c = 53 -> "Moderate drizzle"
          [] c = 55 -> "Dense drizzle"
          [] c = 56 -> "Light freezing drizzle"
          [] c = 57 -> "Dense freezing drizzle"
          [] c = 61 -> "Slight rain"
          [] c = 63 -> "Moderate rain"
          [] c = 65 -> "Heavy rain"
          [] c = 66 -> "Light freezing rain"
          [] c = 67 -> "Heavy freezing rain"
          [] c = 71 -> "Slight snowfall"
          [] c = 73 -> "Moderate snowfall"
          [] c = 75 -> "Heavy snowfall"
          [] c = 77 -> "Snow grains"
          [] c = 80 -> "Slight rain showers"
          [] c = 81 -> "Moderate rain showers"
          [] c = 82 -> "Violent rain showers"
          [] c = 85 -> "Slight snow showers"
          [] c = 86 -> "Heavy snow showers"
          [] c = 95 -> "Thunderstorm"
          [] c = 96 -> "Thunderstorm with slight hail"
          [] c = 99 -> "Thunderstorm with heavy hail"]

\* Faulty variant of weather_code_to_conditions: the fallback leaves the
\* code out.
weather_code_to_conditions_NoCode(code) ==
    IF code \in DOMAIN WMO_CODES THEN WMO_CODES[code] ELSE "Unknown"

\* WMO_CODES.get(code, f"Unknown (code {code})")
weather_code_to_conditions(code) ==
    IF code \in DOMAIN WMO_CODES THEN WMO_CODES[code]
    ELSE "Unknown (code " \o IntStr(code) \o ")"

---------------------------------------------------------------------------
(* Input validation of the client.                                         *)

\* Faulty variant of _validate_coordinates: only the upper limits are
\* checked.
_validate_coordinates_UpperOnly(latitude, longitude) ==
    IF ~(latitude <= 900)
    THEN Raise("ValueError",
               "Latitude must be between -90 and 90, got " \o FloatStr(latitude), 0)
    ELSE IF ~(longitude <= 1800)
    THEN Raise("ValueError",
               "Longitude must be between -180 and 180, got " \o FloatStr(longitude), 0)
    ELSE Ok("None")

\* Faulty variant of _validate_coordinates: the limits themselves are
\* rejected.
_validate_coordinates_Exclusive(latitude, longitude) ==
    IF ~(-900 < latitude /\ latitude < 900)
    THEN Raise("ValueError",
               "Latitude must be between -90 and 90, got " \o FloatStr(latitude), 0)
    ELSE IF ~(-1800 < longitude /\ longitude < 1800)
    THEN Raise("ValueError",
               "Longitude must be between -180 and 180, got " \o FloatStr(longitude), 0)
    ELSE Ok("None")

\* OpenMeteoClient._validate_coordinates: returns None or raises ValueError
_validate_coordinates(latitude, longitude) ==
    IF ~(-900 <= latitude /\ latitude <= 900)
    THEN Raise("ValueError",
               "Latitude must be between -90 and 90, got " \o FloatStr(latitude), 0)
    ELSE IF ~(-1800 <= longitude /\ longitude <= 1800)
    THEN Raise("ValueError",
               "Longitude must be between -180 and 180, got " \o FloatStr(longitude), 0)
    ELSE Ok("None")

\* Faulty variant of _validate_days: the lower limit is 0.
_validate_days_FromZero(days) ==
    IF ~(0 <= days /\ days <= 16)
    THEN Raise("ValueError", "Days must be between 1 and 16, got " \o IntStr(days), 0)
    ELSE Ok("None")

\* the day-count check of OpenMeteoClient.get_forecast
_validate_days(days) ==
    IF ~(1 <= days /\ days <= 16)
    THEN Raise("ValueError", "Days must be between 1 and 16, got " \o IntStr(days), 0)
    ELSE Ok("None")

---------------------------------------------------------------------------
(* JSON values and the Python operations the client applies to them.       *)
(* The messages of exceptions raised by the interpreter and its libraries  *)
(* are CPython's.                                                          *)

JInt(n) == [t |-> "int", i |-> n]
JFloat(x) == [t |-> "float", f |-> x]
JStr(s) == [t |-> "str", s |-> s]
JBool(b) == [t |-> "bool", b |-> b]
JNull == [t |-> "null"]
JArr(q) == [t |-> "arr", a |-> q]
JObj(f) == [t |-> "obj", o |-> f]

\* type(x).__name__
TypeName(j) ==
    CASE j.t = "int" -> "int"
      [] j.t = "float" -> "float"
      [] j.t = "str" -> "str"
      [] j.t = "bool" -> "bool"
      [] j.t = "null" -> "NoneType"
      [] j.t = "arr" -> "list"
      [] j.t = "obj" -> "dict"

\* bool(x)
Truthy(j) ==
    CASE j.t = "bool" -> j.b
      [] j.t = "int" -> j.i # 0
      [] j.t = "float" -> j.f # 0
      [] j.t = "str" -> Len(j.s) > 0
      [] j.t = "null" -> FALSE
      [] j.t = "arr" -> Len(j.a) > 0
      [] j.t = "obj" -> DOMAIN j.o # {}

\* str(x) as an f-string renders it (scalars only)
PyStr(j) ==
    CASE j.t = "str" -> j.s
      [] j.t = "int" -> IntStr(j.i)
      [] j.t = "float" -> FloatStr(j.f)
      [] j.t = "bool" -> IF j.b THEN "True" ELSE "False"
      [] j.t = "null" -> "None"
      [] OTHER -> "<" \o TypeName(j) \o ">"

\* key in x
PyIn(key, j) ==
    CASE j.t = "obj" -> Ok(key \in DOMAIN j.o)
      [] j.t = "arr" -> Ok(\E i \in 1..Len(j.a) : j.a[i] = JStr(key))
      [] j.t = "str" -> Ok(Contains(j.s, key))
      [] OTHER -> Raise("TypeError",
                        "argument of type '" \o TypeName(j) \o "' is not iterable", 0)

\* x[key] for a string key
GetItem(j, key) ==
    CASE j.t = "obj" ->
            IF key \in DOMAIN j.o THEN Ok(j.o[key])
            ELSE Raise("KeyError", "'" \o key \o "'", 0)
      [] j.t = "arr" ->
            Raise("TypeError", "list indices must be integers or slices, not str", 0)
      [] j.t = "str" ->
            Raise("TypeError", "string indices must be integers, not 'str'", 0)
      [] OTHER ->
            Raise("TypeError", "'" \o TypeName(j) \o "' object is not subscriptable", 0)

\* x[i] for an index i >= 0
GetIndex(j, i) ==
    CASE j.t = "arr" ->
            IF i < Len(j.a) THEN Ok(j.a[i + 1])
            ELSE Raise("IndexError", "list index out of range", 0)
      [] j.t = "str" ->
            IF i < Len(j.s) THEN Ok(JStr(CharAt(j.s, i + 1)))
            ELSE Raise("IndexError", "string index out of range", 0)
      [] j.t = "obj" -> Raise("KeyError", IntStr(i), 0)
      [] OTHER ->
            Raise("TypeError", "'" \o TypeName(j) \o "' object is not subscriptable", 0)

\* len(x)
PyLen(j) ==
    CASE j.t = "arr" -> Ok(Len(j.a))
      [] j.t = "str" -> Ok(Len(j.s))
      [] j.t = "obj" -> Ok(Cardinality(DOMAIN j.o))
      [] OTHER ->
            Raise("TypeError", "object of type '" \o TypeName(j) \o "' has no len()", 0)

\* a decimal literal: an optional sign and digits
IsIntLiteral(s) ==
    IF Len(s) > 0 /\ CharAt(s, 1) = "-" THEN AllDigits(SubSeq(s, 2, Len(s)))
    ELSE AllDigits(s)

IntLiteralVal(s) ==
    IF CharAt(s, 1) = "-" THEN 0 - DigitsVal(SubSeq(s, 2, Len(s)))
    ELSE DigitsVal(s)

\* int(x): identity on an int, truncation of a float, parse of a str
PyInt(j) ==
    CASE j.t = "int" -> Ok(j.i)
      [] j.t = "float" ->
            Ok(IF j.f < 0 THEN 0 - ((0 - j.f) \div 10) ELSE j.f \div 10)
      [] j.t = "bool" -> Ok(IF j.b THEN 1 ELSE 0)
      [] j.t = "str" ->
            IF IsIntLiteral(j.s) THEN Ok(IntLiteralVal(j.s))
            ELSE Raise("ValueError",
                       "invalid literal for int() with base 10: '" \o j.s \o "'", 0)
      [] OTHER ->
            Raise("TypeError",
                  "int() argument must be a string, a bytes-like object or a real number, not '"
                      \o TypeName(j) \o "'", 0)

\* float(x), in tenths; of a str, the integer literals only
PyFloat(j) ==
    CASE j.t = "int" -> Ok(10 * j.i)
      [] j.t = "float" -> Ok(j.f)
      [] j.t = "bool" -> Ok(IF j.b THEN 10 ELSE 0)
      [] j.t = "str" ->
            IF IsIntLiteral(j.s) THEN Ok(10 * IntLiteralVal(j.s))
            ELSE Raise("ValueError",
                       "could not convert string to float: '" \o j.s \o "'", 0)
      [] OTHER ->
            Raise("TypeError",
                  "float() argument must be a string or a real number, not '"
                      \o TypeName(j) \o "'", 0)

IsLeap(y) == (y % 4 = 0 /\ y % 100 # 0) \/ y % 400 = 0

DaysInMonth(y, m) ==
    IF m = 2 THEN (IF IsLeap(y) THEN 29 ELSE 28)
    ELSE IF m \in {4, 6, 9, 11} THEN 30 ELSE 31

\* the shape YYYY-MM-DD
IsDateShape(s) ==
    /\ Len(s) = 10
    /\ AllDigits(SubSeq(s, 1, 4))
    /\ CharAt(s, 5) = "-"
    /\ AllDigits(SubSeq(s, 6, 7))
    /\ CharAt(s, 8) = "-"
    /\ AllDigits(SubSeq(s, 9, 10))

\* date.fromisoformat(x) of the extended calendar form
date_fromisoformat(j) ==
    IF j.t # "str" THEN Raise("TypeError", "fromisoformat: argument must be str", 0)
    ELSE IF ~IsDateShape(j.s)
    THEN Raise("ValueError", "Invalid isoformat string: '" \o j.s \o "'", 0)
    ELSE LET y == DigitsVal(SubSeq(j.s, 1, 4))
             m == DigitsVal(SubSeq(j.s, 6, 7))
             d == DigitsVal(SubSeq(j.s, 9, 10))
         IN  IF y < 1 THEN Raise("ValueError", "year 0 is out of range", 0)
             ELSE IF m < 1 \/ m > 12 THEN Raise("ValueError", "month must be in 1..12", 0)
             ELSE IF d < 1 \/ d > DaysInMonth(y, m)
             THEN Raise("ValueError", "day is out of range for month", 0)
             ELSE Ok([year |-> y, month |-> m, day |-> d])

\* str(d) of a date
date_isoformat(d) == Pad4(d.year) \o "-" \o Pad2(d.month) \o "-" \o Pad2(d.day)

\* the shape HH:MM after the separator
IsTimeShape(s) ==
    /\ Len(s) = 5
    /\ AllDigits(SubSeq(s, 1, 2))
    /\ CharAt(s, 3) = ":"
    /\ AllDigits(SubSeq(s, 4, 5))

\* datetime.fromisoformat(x).replace(tzinfo=timezone.utc) of YYYY-MM-DD or
\* YYYY-MM-DD?HH:MM (any one separator character)
datetime_fromisoformat(j) ==
    IF j.t # "str" THEN Raise("TypeError", "fromisoformat: argument must be str", 0)
    ELSE IF ~(Len(j.s) \in {10, 16})
    THEN Raise("ValueError", "Invalid isoformat string: '" \o j.s \o "'", 0)
    ELSE LET dt == date_fromisoformat(JStr(SubSeq(j.s, 1, 10)))
             tm == SubSeq(j.s, 12, Len(j.s))
         IN  IF ~dt.ok THEN dt
             ELSE IF Len(j.s) = 10
             THEN Ok([date |-> dt.val, hour |-> 0, minute |-> 0, tz |-> "UTC"])
             ELSE IF ~IsTimeShape(tm)
             THEN Raise("ValueError", "Invalid isoformat string: '" \o j.s \o "'", 0)
             ELSE LET h == DigitsVal(SubSeq(tm, 1, 2))
                      mi == DigitsVal(SubSeq(tm, 4, 5))
                  IN  IF h > 23 THEN Raise("ValueError", "hour must be in 0..23", 0)
                      ELSE IF mi > 59
                      THEN Raise("ValueError", "minute must be in 0..59", 0)
                      ELSE Ok([date |-> dt.val, hour |-> h, minute |-> mi, tz |-> "UTC"])

\* timestamp.isoformat() of an aware UTC datetime with zero seconds
datetime_isoformat(ts) ==
    date_isoformat(ts.date) \o "T" \o Pad2(ts.hour) \o ":" \o Pad2(ts.minute)
        \o ":00+00:00"

---------------------------------------------------------------------------
(* The upstream's answer to one GET, as the HTTP library hands it over.    *)

\* the GET failed below HTTP: self._client.get raises exc (a timeout, a
\* refused connection)
Transport(exc, msg) ==
    [kind |-> "transport", exc |-> exc, msg |-> msg, status |-> 0,
     body |-> [t |-> "none"]]

\* an HTTP response with a status code and a body
Http(status, body) ==
    [kind |-> "http", exc |-> "", msg |-> "", status |-> status, body |-> body]

\* a body that is JSON text, and one that is not
JsonBody(j) == [t |-> "json", v |-> j]
NotJson == [t |-> "invalid"]

NoReply == [kind |-> "none", exc |-> "", msg |-> "", status |-> 0, body |-> [t |-> "none"]]

---------------------------------------------------------------------------
(* OpenMeteoClient.                                                        *)

\* Faulty variant of _get: the error envelope is looked for before the
\* status is checked.
_get_EnvelopeFirst(resp) ==
    IF resp.kind = "transport" THEN Raise(resp.exc, resp.msg, 0)
    ELSE IF /\ resp.body.t = "json"
            /\ resp.body.v.t = "obj"
            /\ "error" \in DOMAIN resp.body.v.o
            /\ Truthy(resp.body.v.o["error"])
    THEN Raise("RuntimeError",
               "Open-Meteo API error: "
                   \o (IF "reason" \in DOMAIN resp.body.v.o
                       THEN PyStr(resp.body.v.o["reason"]) ELSE "unknown"), 0)
    ELSE IF ~(200 <= resp.status /\ resp.status <= 299)
    THEN Raise("HTTPStatusError", "HTTP status " \o IntStr(resp.status), resp.status)
    ELSE IF resp.body.t # "json"
    THEN Raise("JSONDecodeError", "Expecting value: line 1 column 1 (char 0)", 0)
    ELSE LET data == resp.body.v
             has == PyIn("error", data)
         IN  IF ~has.ok THEN has ELSE Ok(data)

\* OpenMeteoClient._get, from the completion of the awaited GET on:
\* raise_for_status(), response.json(), the check of the error envelope
_get(resp) ==
    IF resp.kind = "transport" THEN Raise(resp.exc, resp.msg, 0)
    ELSE IF ~(200 <= resp.status /\ resp.status <= 299)
    THEN Raise("HTTPStatusError", "HTTP status " \o IntStr(resp.status), resp.status)
    ELSE IF resp.body.t # "json"
    THEN Raise("JSONDecodeError", "Expecting value: line 1 column 1 (char 0)", 0)
    ELSE LET data == resp.body.v
             has == PyIn("error", data)
             err == GetItem(data, "error")
             reason == IF "reason" \in DOMAIN data.o THEN PyStr(data.o["reason"])
                       ELSE "unknown"
         IN  IF ~has.ok THEN has
             ELSE IF ~has.val THEN Ok(data)
             ELSE IF ~err.ok THEN err
             ELSE IF Truthy(err.val)
             THEN Raise("RuntimeError", "Open-Meteo API error: " \o reason, 0)
             ELSE Ok(data)

\* OpenMeteoClient.get_current_weather up to the await: validation, then
\* the query parameters of the GET
CurrentParams(latitude, longitude) ==
    LET v == _validate_coordinates(latitude, longitude)
    IN  IF ~v.ok THEN v
        ELSE Ok([latitude |-> latitude,
                 longitude |-> longitude,
                 current |-> "temperature_2m,wind_speed_10m,weather_code",
                 timezone |-> "UTC"])

\* OpenMeteoClient.get_forecast up to the await
ForecastParams(latitude, longitude, days) ==
    LET v == _validate_coordinates(latitude, longitude)
        d == _validate_days(days)
    IN  IF ~v.ok THEN v
        ELSE IF ~d.ok THEN d
        ELSE Ok([latitude |-> latitude,
                 longitude |-> longitude,
                 daily |-> "temperature_2m_max,temperature_2m_min,precipitation_sum,weather_code",
                 timezone |-> "UTC",
                 forecast_days |-> days])

\* obj[key][i]
Element(obj, key, i) ==
    LET g == GetItem(obj, key) IN IF g.ok THEN GetIndex(g.val, i) ELSE g

\* a conversion applied to a looked-up value: the lookup's exception comes
\* first
IntOf(o) == IF o.ok THEN PyInt(o.val) ELSE o
FloatOf(o) == IF o.ok THEN PyFloat(o.val) ELSE o
LenOf(o) == IF o.ok THEN PyLen(o.val) ELSE o
DateOf(o) == IF o.ok THEN date_fromisoformat(o.val) ELSE o
DateTimeOf(o) == IF o.ok THEN datetime_fromisoformat(o.val) ELSE o

\* OpenMeteoClient.get_current_weather after _get returned data
CurrentWeatherOf(data) ==
    LET cur == GetItem(data, "current")
        code == IntOf(GetItem(cur.val, "weather_code"))
        temperature == FloatOf(GetItem(cur.val, "temperature_2m"))
        wind_speed == FloatOf(GetItem(cur.val, "wind_speed_10m"))
        timestamp == DateTimeOf(GetItem(cur.val, "time"))
    IN  IF ~cur.ok THEN cur
        ELSE IF ~code.ok THEN code
        ELSE IF ~temperature.ok THEN temperature
        ELSE IF ~wind_speed.ok THEN wind_speed
        ELSE IF ~timestamp.ok THEN timestamp
        ELSE Ok([temperature |-> temperature.val,
                 wind_speed |-> wind_speed.val,
                 weather_code |-> code.val,
                 conditions |-> weather_code_to_conditions(code.val),
                 timestamp |-> timestamp.val])

\* Faulty variant of DailyForecastAt: the minimum and the maximum
\* temperature are taken from each other's array.
DailyForecastAt_Swapped(daily, i) ==
    LET code == IntOf(Element(daily, "weather_code", i))
        forecast_date == DateOf(Element(daily, "time", i))
        temperature_min == FloatOf(Element(daily, "temperature_2m_max", i))
        temperature_max == FloatOf(Element(daily, "temperature_2m_min", i))
        precipitation == FloatOf(Element(daily, "precipitation_sum", i))
    IN  IF ~code.ok THEN code
        ELSE IF ~forecast_date.ok THEN forecast_date
        ELSE IF ~temperature_min.ok THEN temperature_min
        ELSE IF ~temperature_max.ok THEN temperature_max
        ELSE IF ~precipitation.ok THEN precipitation
        ELSE Ok([forecast_date |-> forecast_date.val,
                 temperature_min |-> temperature_min.val,
                 temperature_max |-> temperature_max.val,
                 precipitation |-> precipitation.val,
                 weather_code |-> code.val,
                 conditions |-> weather_code_to_conditions(code.val)])

\* one pass of the loop of OpenMeteoClient.get_forecast: the DailyForecast
\* of index i (from 0)
DailyForecastAt(daily, i) ==
    LET code == IntOf(Element(daily, "weather_code", i))
        forecast_date == DateOf(Element(daily, "time", i))
        temperature_min == FloatOf(Element(daily, "temperature_2m_min", i))
        temperature_max == FloatOf(Element(daily, "temperature_2m_max", i))
        precipitation == FloatOf(Element(daily, "precipitation_sum", i))
    IN  IF ~code.ok THEN code
        ELSE IF ~forecast_date.ok THEN forecast_date
        ELSE IF ~temperature_min.ok THEN temperature_min
        ELSE IF ~temperature_max.ok THEN temperature_max
        ELSE IF ~precipitation.ok THEN precipitation
        ELSE Ok([forecast_date |-> forecast_date.val,
                 temperature_min |-> temperature_min.val,
                 temperature_max |-> temperature_max.val,
                 precipitation |-> precipitation.val,
                 weather_code |-> code.val,
                 conditions |-> weather_code_to_conditions(code.val)])

\* Faulty variant of ForecastLoop: a day that cannot be mapped ends the
\* loop, and the days mapped before it are kept.
RECURSIVE ForecastLoop_Partial(_, _, _, _)
ForecastLoop_Partial(daily, i, n, forecasts) ==
    IF i >= n THEN Ok(forecasts)
    ELSE LET day == DailyForecastAt(daily, i)
         IN  IF ~day.ok THEN Ok(forecasts)
             ELSE ForecastLoop_Partial(daily, i + 1, n, Append(forecasts, day.val))

\* the loop "for i in range(n)" from index i on, forecasts being the list
\* built so far
RECURSIVE ForecastLoop(_, _, _, _)
ForecastLoop(daily, i, n, forecasts) ==
    IF i >= n THEN Ok(forecasts)
    ELSE LET day == DailyForecastAt(daily, i)
         IN  IF ~day.ok THEN day
             ELSE ForecastLoop(daily, i + 1, n, Append(forecasts, day.val))

\* OpenMeteoClient.get_forecast after _get returned data
ForecastOf(latitude, longitude, data) ==
    LET daily == GetItem(data, "daily")
        n == LenOf(GetItem(daily.val, "time"))
        forecasts == ForecastLoop(daily.val, 0, n.val, <<>>)
    IN  IF ~daily.ok THEN daily
        ELSE IF ~n.ok THEN n
        ELSE IF ~forecasts.ok THEN forecasts
        ELSE Ok([location |-> [latitude |-> latitude, longitude |-> longitude],
                 forecasts |-> forecasts.val])

\* OpenMeteoClient.get_current_weather, resp being what the GET it may
\* issue comes back with: the CurrentWeather returned or the exception raised
Client_get_current_weather(latitude, longitude, resp) ==
    LET params == CurrentParams(latitude, longitude)
        data == _get(resp)
    IN  IF ~params.ok THEN params
        ELSE IF ~data.ok THEN data
        ELSE CurrentWeatherOf(data.val)

\* OpenMeteoClient.get_forecast, likewise
Client_get_forecast(latitude, longitude, days, resp) ==
    LET params == ForecastParams(latitude, longitude, days)
        data == _get(resp)
    IN  IF ~params.ok THEN params
        ELSE IF ~data.ok THEN data
        ELSE ForecastOf(latitude, longitude, data.val)

---------------------------------------------------------------------------
(* The tool handlers.                                                      *)

\* "\n".join(lines)
RECURSIVE Join(_)
Join(lines) ==
    IF Len(lines) = 0 THEN ""
    ELSE IF Len(lines) = 1 THEN lines[1]
    ELSE lines[1] \o "\n" \o Join(Tail(lines))

\* the string get_current_weather returns on success
FormatCurrent(latitude, longitude, weather) ==
    "Current weather at (" \o FloatStr(latitude) \o ", " \o FloatStr(longitude) \o "):\n"
    \o "  Temperature: " \o FloatStr(weather.temperature) \o "degC\n"
    \o "  Wind Speed: " \o FloatStr(weather.wind_speed) \o " km/h\n"
    \o "  Conditions: " \o weather.conditions
    \o " (WMO code " \o IntStr(weather.weather_code) \o ")\n"
    \o "  Observed at: " \o datetime_isoformat(weather.timestamp)

\* the first element of lines in get_forecast
ForecastHeader(latitude, longitude, days) ==
    "Weather forecast for (" \o FloatStr(latitude) \o ", " \o FloatStr(longitude)
    \o ") - " \o IntStr(days) \o " day(s):\n"

\* the line get_forecast appends for one day
ForecastLine(day) ==
    "  " \o date_isoformat(day.forecast_date) \o ": " \o day.conditions \o " "
    \o "(WMO " \o IntStr(day.weather_code) \o "), "
    \o FloatStr(day.temperature_min) \o "degC - "
    \o FloatStr(day.temperature_max) \o "degC, "
    \o "Precipitation: " \o FloatStr(day.precipitation) \o " mm"

\* the string get_forecast returns on success
FormatForecast(latitude, longitude, days, forecast) ==
    Join(<<ForecastHeader(latitude, longitude, days)>>
         \o [i \in 1..Len(forecast.forecasts) |-> ForecastLine(forecast.forecasts[i])])

\* the classes "except Exception" catches: every exception the client can
\* raise here derives from Exception
IsException(e) ==
    e.type \in {"ValueError", "JSONDecodeError", "HTTPStatusError", "RuntimeError",
                "KeyError", "IndexError", "TypeError", "ConnectError", "ReadTimeout"}

\* the client's return value when it raised
NoValue == [none |-> TRUE]

\* How a handler ends: text is the string it returns, level the level of
\* the failure it logged, raised whether the exception left the handler;
\* exc and val are what the client call ended with, the class of the
\* exception it raised ("" for none) or the value it returned.
Returned(text, val) ==
    [text |-> text, level |-> "none", raised |-> FALSE, exc |-> "", val |-> val]

\* Faulty variant of Except: the handler has no "except Exception" clause.
Except_NoCatchAll(e, what) ==
    IF IsValueError(e)
    THEN [text |-> "Error: " \o e.msg, level |-> "warning", raised |-> FALSE,
          exc |-> e.type, val |-> NoValue]
    ELSE IF IsHTTPStatusError(e)
    THEN [text |-> "Error: Failed to fetch " \o what \o " - " \o IntStr(e.status),
          level |-> "error", raised |-> FALSE, exc |-> e.type, val |-> NoValue]
    ELSE [text |-> "", level |-> "none", raised |-> TRUE, exc |-> e.type,
          val |-> NoValue]

\* the except clauses of the handlers; what names the failed fetch in the
\* HTTPStatusError clause ("weather data" or "forecast")
Except(e, what) ==
    IF IsValueError(e)
    THEN [text |-> "Error: " \o e.msg, level |-> "warning", raised |-> FALSE,
          exc |-> e.type, val |-> NoValue]
    ELSE IF IsHTTPStatusError(e)
    THEN [text |-> "Error: Failed to fetch " \o what \o " - " \o IntStr(e.status),
          level |-> "error", raised |-> FALSE, exc |-> e.type, val |-> NoValue]
    ELSE IF IsException(e)
    THEN [text |-> "Error: An unexpected error occurred - " \o e.msg,
          level |-> "error", raised |-> FALSE, exc |-> e.type, val |-> NoValue]
    ELSE [text |-> "", level |-> "none", raised |-> TRUE, exc |-> e.type,
          val |-> NoValue]

\* the tool get_current_weather, resp being what its GET comes back with
get_current_weather(latitude, longitude, resp) ==
    LET weather == Client_get_current_weather(latitude, longitude, resp)
    IN  IF ~weather.ok THEN Except(weather, "weather data")
        ELSE Returned(FormatCurrent(latitude, longitude, weather.val), weather.val)

\* the tool get_forecast, resp being what its GET comes back with
get_forecast(latitude, longitude, days, resp) ==
    LET forecast == Client_get_forecast(latitude, longitude, days, resp)
    IN  IF ~forecast.ok THEN Except(forecast, "forecast")
        ELSE Returned(FormatForecast(latitude, longitude, days, forecast.val),
                      forecast.val)

---------------------------------------------------------------------------
(* Inputs: the arguments callers pass and the answers the upstream gives.  *)

Calls == 1..NumCalls

Arg(tool, latitude, longitude, days) ==
    [tool |-> tool, latitude |-> latitude, longitude |-> longitude, days |-> days]

NoArgs == Arg("none", 0, 0, 0)

\* latitudes, longitudes (tenths of a degree) and day counts, on both
\* sides of each limit
Latitudes == {-910, -900, 525, 900, 910}
Longitudes == {-1810, -1800, 134, 1800, 1810}
DayCounts == {0, 1, 3, 16, 17}

AllArgs ==
    {Arg("get_current_weather", la, lo, 7) : la \in Latitudes, lo \in Longitudes}
    \cup {Arg("get_forecast", la, lo, d) :
              la \in Latitudes, lo \in Longitudes, d \in DayCounts}

\* the "current" object of a response
CurrentBody(time, temperature, wind, code) ==
    JObj([current |-> JObj([time |-> time, temperature_2m |-> temperature,
                            wind_speed_10m |-> wind, weather_code |-> code])])

CurrentBodies ==
    {CurrentBody(JStr("2025-06-15T12:00"), JFloat(225), JFloat(153), code) :
        code \in {JInt(2), JInt(63), JInt(999), JInt(-1), JFloat(27), JStr("63"),
                  JStr("abc"), JNull}}
    \cup {CurrentBody(time, JFloat(-35), JInt(0), JInt(95)) :
        time \in {JStr("2024-02-29"), JStr("2025-13-01T00:00"), JStr("garbage"),
                  JStr("2025-06-15T24:00"), JNull}}
    \cup {CurrentBody(JStr("2025-06-15T12:00"), JNull, JFloat(153), JInt(2)),
          JObj([current |-> JObj([time |-> JStr("2025-06-15T12:00"),
                                  temperature_2m |-> JFloat(225)])])}

\* the per-day values upstream responses are cut from
PoolTime ==
    <<JStr("2025-06-15"), JStr("2025-06-16"), JStr("2025-06-17"),
      JStr("2025-06-18"), JStr("2025-06-19"), JStr("2025-06-20")>>
PoolMax == <<JFloat(250), JFloat(270), JFloat(230), JFloat(215), JInt(19), JFloat(305)>>
PoolMin == <<JFloat(150), JFloat(170), JFloat(140), JFloat(-5), JInt(7), JFloat(201)>>
PoolPrecipitation ==
    <<JFloat(0), JFloat(25), JFloat(1), JInt(12), JFloat(3), JFloat(0)>>
PoolCode == <<JInt(0), JInt(63), JInt(1), JInt(999), JInt(95), JInt(2)>>

\* the "daily" object of a response from five parallel arrays
DailyBody(time, tmax, tmin, precipitation, code) ==
    JObj([daily |-> JObj([time |-> JArr(time),
                          temperature_2m_max |-> JArr(tmax),
                          temperature_2m_min |-> JArr(tmin),
                          precipitation_sum |-> JArr(precipitation),
                          weather_code |-> JArr(code)])])

\* the first n days of the pool
DailyPrefix(n) ==
    DailyBody(SubSeq(PoolTime, 1, n), SubSeq(PoolMax, 1, n), SubSeq(PoolMin, 1, n),
              SubSeq(PoolPrecipitation, 1, n), SubSeq(PoolCode, 1, n))

Reverse(q) == [i \in 1..Len(q) |-> q[Len(q) + 1 - i]]

\* the first n days of the pool with the last weather code replaced
DailyWithCode(n, code) ==
    DailyBody(SubSeq(PoolTime, 1, n), SubSeq(PoolMax, 1, n), SubSeq(PoolMin, 1, n),
              SubSeq(PoolPrecipitation, 1, n), Append(SubSeq(PoolCode, 1, n - 1), code))

\* the first n days of the pool with the last date replaced
DailyWithTime(n, time) ==
    DailyBody(Append(SubSeq(PoolTime, 1, n - 1), time), SubSeq(PoolMax, 1, n),
              SubSeq(PoolMin, 1, n), SubSeq(PoolPrecipitation, 1, n),
              SubSeq(PoolCode, 1, n))

DailyBodies ==
    {DailyPrefix(n) : n \in 0..MaxDays}
    \cup {DailyWithCode(MaxDays, code) :
            code \in {JInt(999), JStr("63"), JStr("abc"), JFloat(27), JNull}}
    \cup {DailyWithTime(MaxDays, time) : time \in {JStr("2025-02-29"), JStr("garbage")}}
    \cup {\* not in chronological order
          DailyBody(Reverse(SubSeq(PoolTime, 1, MaxDays)),
                    Reverse(SubSeq(PoolMax, 1, MaxDays)),
                    Reverse(SubSeq(PoolMin, 1, MaxDays)),
                    Reverse(SubSeq(PoolPrecipitation, 1, MaxDays)),
                    Reverse(SubSeq(PoolCode, 1, MaxDays))),
          \* a weather_code array one short of the time array
          DailyBody(SubSeq(PoolTime, 1, MaxDays), SubSeq(PoolMax, 1, MaxDays),
                    SubSeq(PoolMin, 1, MaxDays), SubSeq(PoolPrecipitation, 1, MaxDays),
                    SubSeq(PoolCode, 1, MaxDays - 1)),
          \* a null where a temperature is missing
          DailyBody(SubSeq(PoolTime, 1, MaxDays),
                    Append(SubSeq(PoolMax, 1, MaxDays - 1), JNull),
                    SubSeq(PoolMin, 1, MaxDays), SubSeq(PoolPrecipitation, 1, MaxDays),
                    SubSeq(PoolCode, 1, MaxDays)),
          \* no precipitation_sum
          JObj([daily |-> JObj([time |-> JArr(SubSeq(PoolTime, 1, MaxDays)),
                                temperature_2m_max |-> JArr(SubSeq(PoolMax, 1, MaxDays)),
                                temperature_2m_min |-> JArr(SubSeq(PoolMin, 1, MaxDays)),
                                weather_code |-> JArr(SubSeq(PoolCode, 1, MaxDays))])])}

\* the error envelope and its neighbours
EnvelopeBodies ==
    {JObj([error |-> JBool(TRUE), reason |-> JStr("Latitude must be in range of -90 to 90")]),
     JObj([error |-> JBool(TRUE)]),
     JObj([error |-> JBool(FALSE),
           current |-> JObj([time |-> JStr("2025-06-15T12:00"),
                             temperature_2m |-> JFloat(225),
                             wind_speed_10m |-> JFloat(153),
                             weather_code |-> JInt(2)])])}

\* JSON of no expected shape
OtherBodies == {JObj([x \in {} |-> JNull]), JNull, JArr(<<>>)}

AllBodies ==
    {JsonBody(j) : j \in CurrentBodies \cup DailyBodies \cup EnvelopeBodies \cup OtherBodies}
    \cup {NotJson}

Statuses == {200, 400, 503}

AllReplies ==
    {Http(st, b) : st \in Statuses, b \in AllBodies}
    \cup {Transport("ReadTimeout", ""),
          Transport("ConnectError", "All connection attempts failed")}

\* the inputs of the concurrent specification: a valid and an invalid call
\* of each tool, and an answer of each kind
ConcArgs ==
    {Arg("get_current_weather", 525, 134, 7), Arg("get_current_weather", 910, 134, 7),
     Arg("get_forecast", 525, 134, 3), Arg("get_forecast", 525, 134, 17)}

ConcReplies ==
    {Http(200, JsonBody(CurrentBody(JStr("2025-06-15T12:00"), JFloat(225), JFloat(153),
                                    JInt(2)))),
     Http(200, JsonBody(DailyPrefix(MaxDays))),
     Http(503, NotJson),
     Transport("ReadTimeout", "")}

---------------------------------------------------------------------------
(* The entry point: _parse_args and main.  The command line is the list of *)
(* tokens after the program name; the tokens drawn spell the option names  *)
(* in full.  An argparse usage error is SystemExit with status 2.          *)

\* os.environ.get(name, default)
EnvGet(env, name, default) == IF name \in DOMAIN env THEN env[name] ELSE default

\* os.environ[name] = value
EnvSet(env, name, value) ==
    [k \in DOMAIN env \cup {name} |-> IF k = name THEN value ELSE env[k]]

\* choices=["stdio", "sse", "streamable-http"]
TransportChoices == {"stdio", "sse", "streamable-http"}

\* position of the first "=" of a token, 0 when it has none
IndexOfEq(tok) ==
    IF \E i \in 1..Len(tok) : CharAt(tok, i) = "="
    THEN CHOOSE i \in 1..Len(tok) :
             /\ CharAt(tok, i) = "="
             /\ \A j \in 1..(i - 1) : CharAt(tok, j) # "="
    ELSE 0

\* the option at the head of the tokens, written "--name value" or
\* "--name=value", and the tokens after it
OptionOf(tokens) ==
    LET tok == Head(tokens)
        i == IndexOfEq(tok)
    IN  IF i > 0
        THEN [name |-> SubSeq(tok, 1, i - 1), given |-> TRUE,
              value |-> SubSeq(tok, i + 1, Len(tok)), rest |-> Tail(tokens)]
        ELSE IF Tail(tokens) # <<>>
        THEN [name |-> tok, given |-> TRUE,
              value |-> Head(Tail(tokens)), rest |-> Tail(Tail(tokens))]
        ELSE [name |-> tok, given |-> FALSE, value |-> "", rest |-> <<>>]

\* parser.error(message): usage on stderr and sys.exit(2)
UsageError(message) == Raise("SystemExit", message, 2)

\* parser.parse_args() over the three options the parser declares: ns holds
\* the defaults and takes the value of every option met, the last one
\* winning.  Only a value given on the command line is checked against
\* choices and converted with type; a default that is a str of an option
\* without type is stored as it is.
RECURSIVE parse_args(_, _)
parse_args(tokens, ns) ==
    IF tokens = <<>> THEN Ok(ns)
    ELSE LET opt == OptionOf(tokens)
         IN  CASE opt.name \notin {"--transport", "--host", "--port"} ->
                      UsageError("unrecognized arguments: " \o Head(tokens))
               [] ~opt.given ->
                      UsageError("argument " \o opt.name \o ": expected one argument")
               [] opt.name = "--transport" ->
                      IF opt.value \in TransportChoices
                      THEN parse_args(opt.rest, [ns EXCEPT !.transport = opt.value])
                      ELSE UsageError("argument --transport: invalid choice: '"
                                          \o opt.value \o "'")
               [] opt.name = "--host" ->
                      parse_args(opt.rest, [ns EXCEPT !.host = opt.value])
               [] OTHER ->
                      IF IsIntLiteral(opt.value)
                      THEN parse_args(opt.rest, [ns EXCEPT !.port = IntLiteralVal(opt.value)])
                      ELSE UsageError("argument --port: invalid int value: '"
                                          \o opt.value \o "'")

\* _parse_args(): the outcome (the transport, or the exception that ends
\* it) and os.environ as it leaves it
_parse_args(av, env) ==
    LET port == PyInt(JStr(EnvGet(env, "MCP_PORT", "8000")))
    IN  IF ~port.ok THEN [out |-> port, environ |-> env]
        ELSE LET parsed == parse_args(av, [transport |-> EnvGet(env, "MCP_TRANSPORT", "stdio"),
                                           host |-> EnvGet(env, "MCP_HOST", "0.0.0.0"),
                                           port |-> port.val])
             IN  IF ~parsed.ok THEN [out |-> parsed, environ |-> env]
                 ELSE [out |-> Ok(parsed.val.transport),
                       environ |-> EnvSet(EnvSet(env, "FASTMCP_HOST", parsed.val.host),
                                          "FASTMCP_PORT", IntStr(parsed.val.port))]

\* the module is imported and main() has not been called
NotStarted ==
    [state |-> "imported", transport |-> "", host |-> "", port |-> 0,
     transport_security |-> "default", error |-> ""]

\* the command line and the environment of a process started without either
NoFlags == <<>>
NoEnviron == [k \in {} |-> ""]

---------------------------------------------------------------------------
(* The state machine: handler invocations over the shared client.          *)

\* the tool the framework dispatches to, up to its await: the validation
\* and the parameters of the GET
Params(a) ==
    IF a.tool = "get_current_weather" THEN CurrentParams(a.latitude, a.longitude)
    ELSE ForecastParams(a.latitude, a.longitude, a.days)

\* the tool the framework dispatches to, resp being what its GET comes back
\* with
Tool(a, resp) ==
    IF a.tool = "get_current_weather"
    THEN get_current_weather(a.latitude, a.longitude, resp)
    ELSE get_forecast(a.latitude, a.longitude, a.days, resp)

\* The retry constants the module declares; no operation of the client
\* reads them.  RETRY_BACKOFF is in tenths of a second.
MAX_RETRIES == 3
RETRY_BACKOFF == 5

\* _client = OpenMeteoClient(): an open connection handle with a timeout of
\* 10 seconds
NewClient == [is_closed |-> FALSE, timeout |-> 10]

Init ==
    /\ pc = [c \in Calls |-> "idle"]
    /\ args = [c \in Calls |-> NoArgs]
    /\ requests = [c \in Calls |-> <<>>]
    /\ reply = [c \in Calls |-> NoReply]
    /\ result = [c \in Calls |-> ""]
    /\ raised = [c \in Calls |-> FALSE]
    /\ logged = [c \in Calls |-> "none"]
    /\ thrown = [c \in Calls |-> ""]
    /\ returned = [c \in Calls |-> NoValue]
    /\ client = NewClient
    /\ argv = NoFlags
    /\ environ = NoEnviron
    /\ server = NotStarted

\* handler c ends its try block or an except clause with h
Finish(c, h) ==
    /\ pc' = [pc EXCEPT ![c] = "done"]
    /\ result' = [result EXCEPT ![c] = h.text]
    /\ raised' = [raised EXCEPT ![c] = h.raised]
    /\ logged' = [logged EXCEPT ![c] = h.level]
    /\ thrown' = [thrown EXCEPT ![c] = h.exc]
    /\ returned' = [returned EXCEPT ![c] = h.val]

\* The framework invokes a tool with arguments from A.  The handler runs to
\* its first await: invalid arguments end it in the ValueError clause with
\* no GET; valid ones issue the GET and suspend the handler.
Invoke(c, A) ==
    /\ pc[c] = "idle"
    /\ \E a \in A :
          LET p == Params(a)
          IN  /\ args' = [args EXCEPT ![c] = a]
              /\ IF p.ok
                 THEN /\ requests' = [requests EXCEPT ![c] = Append(@, p.val)]
                      /\ pc' = [pc EXCEPT ![c] = "awaiting"]
                      /\ UNCHANGED <<result, raised, logged, thrown, returned>>
                 ELSE /\ Finish(c, Tool(a, NoReply))
                      /\ UNCHANGED requests
    /\ UNCHANGED <<reply, client, argv, environ, server>>

\* The upstream answers c's GET with a reply from R (or the GET fails).
Respond(c, R) ==
    /\ pc[c] = "awaiting"
    /\ reply[c] = NoReply
    /\ \E r \in R : reply' = [reply EXCEPT ![c] = r]
    /\ UNCHANGED <<pc, args, requests, result, raised, logged, thrown, returned, client, argv, environ, server>>

\* Faulty variant of Resume: a GET that failed (in transport or with a
\* non-2xx status) is issued again, up to MAX_RETRIES times.
Resume_Retry(c) ==
    /\ pc[c] = "awaiting"
    /\ reply[c] # NoReply
    /\ IF /\ reply[c].kind = "transport" \/ reply[c].status > 299
          /\ Len(requests[c]) < MAX_RETRIES
       THEN /\ requests' = [requests EXCEPT ![c] = Append(@, requests[c][1])]
            /\ reply' = [reply EXCEPT ![c] = NoReply]
            /\ UNCHANGED <<pc, args, result, raised, logged, thrown, returned, client, argv, environ, server>>
       ELSE /\ Finish(c, Tool(args[c], reply[c]))
            /\ UNCHANGED <<args, requests, reply, client, argv, environ, server>>

\* Faulty variant of Resume: the response is kept in one slot of the shared
\* client, so a handler resumes with whichever response is there.
Resume_SharedReply(c) ==
    /\ pc[c] = "awaiting"
    /\ reply[c] # NoReply
    /\ LET d == CHOOSE d \in Calls : reply[d] # NoReply
       IN  Finish(c, Tool(args[c], reply[d]))
    /\ UNCHANGED <<args, requests, reply, client, argv, environ, server>>

\* The await of handler c completes: the rest of _get, the mapping, the
\* formatting or an except clause, and the return.
Resume(c) ==
    /\ pc[c] = "awaiting"
    /\ reply[c] # NoReply
    /\ Finish(c, Tool(args[c], reply[c]))
    /\ UNCHANGED <<args, requests, reply, client, argv, environ, server>>

\* The framework has taken c's string; the slot serves the next invocation.
Return(c) ==
    /\ pc[c] = "done"
    /\ pc' = [pc EXCEPT ![c] = "idle"]
    /\ args' = [args EXCEPT ![c] = NoArgs]
    /\ requests' = [requests EXCEPT ![c] = <<>>]
    /\ reply' = [reply EXCEPT ![c] = NoReply]
    /\ result' = [result EXCEPT ![c] = ""]
    /\ raised' = [raised EXCEPT ![c] = FALSE]
    /\ logged' = [logged EXCEPT ![c] = "none"]
    /\ thrown' = [thrown EXCEPT ![c] = ""]
    /\ returned' = [returned EXCEPT ![c] = NoValue]
    /\ UNCHANGED <<client, argv, environ, server>>

\* One caller at a time, every input.
Next ==
    \/ Invoke(1, AllArgs)
    \/ Respond(1, AllReplies)
    \/ Resume(1)
    \/ Return(1)

Spec == Init /\ [][Next]_vars

\* Concurrent callers.
NextConc ==
    \E c \in Calls :
        \/ Invoke(c, ConcArgs)
        \/ Respond(c, ConcReplies)
        \/ Resume(c)
        \/ Return(c)

SpecConc == Init /\ [][NextConc]_vars

\* The weather-code lookup over a range of codes: one caller of
\* get_current_weather, every answer a well-formed response carrying one of
\* the codes.
CodeInputs == (-2..100) \cup {999, 1000}

CodeArgs == {Arg("get_current_weather", 525, 134, 7)}

CodeReplies ==
    {Http(200, JsonBody(CurrentBody(JStr("2025-06-15T12:00"), JFloat(225), JFloat(153),
                                    JInt(code)))) : code \in CodeInputs}

NextCodes ==
    \/ Invoke(1, CodeArgs)
    \/ Respond(1, CodeReplies)
    \/ Resume(1)
    \/ Return(1)

SpecCodes == Init /\ [][NextCodes]_vars

\* The entry point over a range of command lines and environments.
Argvs ==
    {<<>>,
     <<"--transport", "stdio">>, <<"--transport", "sse">>,
     <<"--transport", "streamable-http">>, <<"--transport=sse">>,
     <<"--transport", "http">>, <<"--transport">>,
     <<"--transport", "sse", "--transport", "stdio">>,
     <<"--host", "localhost", "--transport", "sse">>,
     <<"--port", "8080">>, <<"--port", "x">>, <<"--verbose">>}

\* the environments: each of the three variables unset or set
Environs ==
    {[k \in D |-> CASE k = "MCP_TRANSPORT" -> t [] k = "MCP_HOST" -> h [] OTHER -> p] :
        D \in SUBSET {"MCP_TRANSPORT", "MCP_HOST", "MCP_PORT"},
        t \in {"stdio", "sse", "streamable-http", "websocket", ""},
        h \in {"127.0.0.1"},
        p \in {"9000", "abc"}}

\* a process started with a command line and an environment of these
InitArgs ==
    /\ pc = [c \in Calls |-> "idle"]
    /\ args = [c \in Calls |-> NoArgs]
    /\ requests = [c \in Calls |-> <<>>]
    /\ reply = [c \in Calls |-> NoReply]
    /\ result = [c \in Calls |-> ""]
    /\ raised = [c \in Calls |-> FALSE]
    /\ logged = [c \in Calls |-> "none"]
    /\ thrown = [c \in Calls |-> ""]
    /\ returned = [c \in Calls |-> NoValue]
    /\ client = NewClient
    /\ argv \in Argvs
    /\ environ \in Environs
    /\ server = NotStarted

\* main(): transport = _parse_args().  A usage error or the ValueError of
\* int(MCP_PORT) ends the process.
Main_parse_args ==
    /\ server.state = "imported"
    /\ LET r == _parse_args(argv, environ)
       IN  /\ environ' = r.environ
           /\ server' = IF r.out.ok
                        THEN [server EXCEPT !.state = "parsed", !.transport = r.out.val]
                        ELSE [server EXCEPT !.state = "failed", !.error = r.out.type]
    /\ UNCHANGED <<pc, args, requests, reply, result, raised, logged, thrown, returned,
                   client, argv>>

\* main() after _parse_args: host and port are copied to mcp.settings, the
\* DNS-rebinding protection is dropped for a host that is not loopback, and
\* mcp.run is called with the transport
Main_run ==
    /\ server.state = "parsed"
    /\ LET host == EnvGet(environ, "FASTMCP_HOST", "0.0.0.0")
           port == PyInt(JStr(EnvGet(environ, "FASTMCP_PORT", "8000")))
       IN  server' = IF port.ok
                     THEN [server EXCEPT
                              !.state = "running", !.host = host, !.port = port.val,
                              !.transport_security =
                                  IF host \notin {"127.0.0.1", "localhost", "::1"}
                                  THEN "None" ELSE "default"]
                     ELSE [server EXCEPT !.state = "failed", !.error = port.type]
    /\ UNCHANGED <<pc, args, requests, reply, result, raised, logged, thrown, returned,
                   client, argv, environ>>

NextArgs ==
    \/ Main_parse_args
    \/ Main_run

SpecArgs == InitArgs /\ [][NextArgs]_vars

---------------------------------------------------------------------------
(* Properties.  What they say of an invocation is read off its arguments,  *)
(* the requests it issued, the reply it got and what it returned.          *)

Done(c) == pc[c] = "done"
Started(c) == pc[c] # "idle"
IsForecastCall(c) == args[c].tool = "get_forecast"
IsCurrentCall(c) == args[c].tool = "get_current_weather"

\* |lat| > 90 or |lon| > 180
OutOfRange(a) ==
    \/ a.latitude > 900 \/ a.latitude < -900
    \/ a.longitude > 1800 \/ a.longitude < -1800

\* a day count outside [1, 16]
BadDays(a) == a.days < 1 \/ a.days > 16

InvalidInput(a) == OutOfRange(a) \/ (a.tool = "get_forecast" /\ BadDays(a))

\* the reply is an HTTP response with a status outside 2xx
Non2xx(r) == r.kind = "http" /\ (r.status < 200 \/ r.status > 299)

\* the reply's body is a JSON object whose error field is set
ErrorEnvelope(r) ==
    /\ r.kind = "http"
    /\ r.body.t = "json"
    /\ r.body.v.t = "obj"
    /\ "error" \in DOMAIN r.body.v.o
    /\ Truthy(r.body.v.o["error"])

\* the invocation failed: its input was invalid, its GET failed or was
\* answered with a non-2xx status, an error envelope or a body that is not
\* JSON, or the client could not map the response
Failed(c) ==
    \/ InvalidInput(args[c])
    \/ reply[c].kind = "transport"
    \/ Non2xx(reply[c])
    \/ ErrorEnvelope(reply[c])
    \/ (reply[c].kind = "http" /\ reply[c].body.t # "json")
    \/ thrown[c] # ""

\* C1: a handler always returns a string and never raises, whatever the
\* inputs and the upstream outcome; on every failure the string begins with
\* "Error: ".
C1_HandlerNeverRaises ==
    \A c \in Calls :
        Done(c) =>
            /\ ~raised[c]
            /\ Len(result[c]) > 0
            /\ (Failed(c) => StartsWith(result[c], "Error: "))

\* a response whose weather_code array is too short was turned into an
\* error string
C1_Witness ==
    /\ Done(1)
    /\ IsForecastCall(1)
    /\ reply[1].kind = "http" /\ reply[1].status = 200 /\ reply[1].body.t = "json"
    /\ thrown[1] = "IndexError"
    /\ StartsWith(result[1], "Error: An unexpected error occurred")

\* C2: with |lat| > 90 or |lon| > 180 both client methods fail with
\* ValueError, and the invocation issues no HTTP request at any point.
C2_OutOfRangeNoRequest ==
    \A c \in Calls :
        (Started(c) /\ OutOfRange(args[c])) =>
            /\ Done(c)
            /\ thrown[c] = "ValueError"
            /\ requests[c] = <<>>
            /\ reply[c] = NoReply

C2_Witness ==
    /\ Done(1) /\ IsForecastCall(1)
    /\ args[1].latitude = 525 /\ args[1].longitude = -1810 /\ args[1].days = 3
    /\ thrown[1] = "ValueError"
    /\ result[1] = "Error: Longitude must be between -180 and 180, got -181.0"

\* C3: with days outside [1, 16], whatever the coordinates, get_forecast
\* fails with ValueError before any network call, and the handler returns an
\* "Error: " string with no HTTP request issued.
C3_BadDaysNoRequest ==
    \A c \in Calls :
        (Started(c) /\ IsForecastCall(c) /\ BadDays(args[c])) =>
            /\ Done(c)
            /\ thrown[c] = "ValueError"
            /\ requests[c] = <<>>
            /\ reply[c] = NoReply
            /\ StartsWith(result[c], "Error: ")
            /\ ~raised[c]

C3_Witness ==
    /\ Done(1) /\ IsForecastCall(1)
    /\ ~OutOfRange(args[1]) /\ args[1].days = 17
    /\ result[1] = "Error: Days must be between 1 and 16, got 17"

\* the reason an error envelope carries, as _get reports it
ReasonOf(r) ==
    IF "reason" \in DOMAIN r.body.v.o THEN r.body.v.o["reason"].s ELSE "unknown"

\* C4 as stated: with valid inputs the client fails with RuntimeError
\* whenever the body has an error field that is set, and with
\* HTTPStatusError whenever the status is not 2xx, for every combination of
\* status and body.
C4_Original ==
    \A c \in Calls :
        (Done(c) /\ ~InvalidInput(args[c])) =>
            /\ ErrorEnvelope(reply[c]) => thrown[c] = "RuntimeError"
            /\ Non2xx(reply[c]) => thrown[c] = "HTTPStatusError"

\* C4 (amended): with valid inputs the client fails with HTTPStatusError
\* whenever the status is not 2xx, whatever the body (the error envelope
\* included), and with RuntimeError carrying the reason whenever the status
\* is 2xx and the body has an error field that is set.
C4_StatusBeforeEnvelope ==
    \A c \in Calls :
        (Done(c) /\ ~InvalidInput(args[c])) =>
            /\ Non2xx(reply[c]) =>
                  /\ thrown[c] = "HTTPStatusError"
                  /\ Contains(result[c], IntStr(reply[c].status))
            /\ (ErrorEnvelope(reply[c]) /\ ~Non2xx(reply[c])) =>
                  /\ thrown[c] = "RuntimeError"
                  /\ Contains(result[c], "Open-Meteo API error: " \o ReasonOf(reply[c]))

\* a 400 response carrying the error envelope ended in HTTPStatusError
C4_Witness ==
    /\ Done(1) /\ IsCurrentCall(1)
    /\ reply[1].status = 400 /\ ErrorEnvelope(reply[1])
    /\ "reason" \in DOMAIN reply[1].body.v.o
    /\ thrown[1] = "HTTPStatusError"
    /\ result[1] = "Error: Failed to fetch weather data - 400"

\* the weather code of the "current" object c was answered with
ReplyCode(c) == reply[c].body.v.o["current"].o["weather_code"].i

\* C5: weather_code_to_conditions is total: every code yields a non-empty
\* string; a code of the WMO table yields its entry (2 "Partly cloudy",
\* 63 "Moderate rain", 0 "Clear sky", 95 "Thunderstorm"); any other code
\* yields a string containing "Unknown" and the code's digits.
C5_LookupTotal ==
    \A c \in Calls :
        Done(c) =>
            /\ thrown[c] = ""
            /\ returned[c].weather_code = ReplyCode(c)
            /\ LET code == ReplyCode(c)
                   conditions == returned[c].conditions
               IN  /\ Len(conditions) > 0
                   /\ code \in DOMAIN WMO_CODES => conditions = WMO_CODES[code]
                   /\ code = 2 => conditions = "Partly cloudy"
                   /\ code = 63 => conditions = "Moderate rain"
                   /\ code = 0 => conditions = "Clear sky"
                   /\ code = 95 => conditions = "Thunderstorm"
                   /\ code \notin DOMAIN WMO_CODES =>
                         /\ Contains(conditions, "Unknown")
                         /\ Contains(conditions, IntStr(code))
                   /\ code = 999 => Contains(conditions, "999")
                   /\ code = -2 => Contains(conditions, "-2")

\* code 999, which the table lacks, was looked up
C5_Witness ==
    /\ Done(1)
    /\ ReplyCode(1) = 999
    /\ returned[1].conditions = "Unknown (code 999)"

\* the "daily" object c was answered with
ReplyDaily(c) == reply[c].body.v.o["daily"].o

\* the "current" object c was answered with
ReplyCurrent(c) == reply[c].body.v.o["current"].o

\* C6: on a successful get_forecast the i-th DailyForecast is built from
\* index i of each parallel array, its conditions are those of its own
\* weather code, and the forecasts are in the order of the upstream arrays;
\* a successful get_current_weather has the conditions of its weather code.
C6_MappingByIndex ==
    \A c \in Calls :
        (Done(c) /\ thrown[c] = "") =>
            IF IsForecastCall(c)
            THEN LET daily == ReplyDaily(c)
                     forecasts == returned[c].forecasts
                 IN  /\ Len(forecasts) = Len(daily["time"].a)
                     /\ \A k \in 1..Len(forecasts) :
                           /\ forecasts[k].forecast_date
                                  = date_fromisoformat(daily["time"].a[k]).val
                           /\ forecasts[k].temperature_min
                                  = PyFloat(daily["temperature_2m_min"].a[k]).val
                           /\ forecasts[k].temperature_max
                                  = PyFloat(daily["temperature_2m_max"].a[k]).val
                           /\ forecasts[k].precipitation
                                  = PyFloat(daily["precipitation_sum"].a[k]).val
                           /\ forecasts[k].weather_code
                                  = PyInt(daily["weather_code"].a[k]).val
                           /\ forecasts[k].conditions
                                  = weather_code_to_conditions(forecasts[k].weather_code)
            ELSE LET current == ReplyCurrent(c)
                 IN  /\ returned[c].weather_code = PyInt(current["weather_code"]).val
                     /\ returned[c].temperature = PyFloat(current["temperature_2m"]).val
                     /\ returned[c].wind_speed = PyFloat(current["wind_speed_10m"]).val
                     /\ returned[c].conditions
                            = weather_code_to_conditions(returned[c].weather_code)

\* a response out of chronological order was mapped, day by day, in the
\* order it came
C6_Witness ==
    /\ Done(1) /\ IsForecastCall(1) /\ thrown[1] = ""
    /\ Len(returned[1].forecasts) = MaxDays
    /\ returned[1].forecasts[1].forecast_date = [year |-> 2025, month |-> 6, day |-> 14 + MaxDays]
    /\ returned[1].forecasts[MaxDays].forecast_date = [year |-> 2025, month |-> 6, day |-> 15]
    /\ returned[1].forecasts[MaxDays].temperature_min = 150
    /\ returned[1].forecasts[MaxDays].temperature_max = 250
    /\ returned[1].forecasts[MaxDays].conditions = "Clear sky"

\* C7 as stated: the ForecastResponse of a successful get_forecast(lat, lon,
\* days) holds exactly days forecasts, for every response the call accepts.
C7_Original ==
    \A c \in Calls :
        (Done(c) /\ IsForecastCall(c) /\ thrown[c] = "") =>
            Len(returned[c].forecasts) = args[c].days

\* text.split("\n")
RECURSIVE SplitLines(_)
SplitLines(text) ==
    IF ~Contains(text, "\n") THEN <<text>>
    ELSE LET i == CHOOSE i \in 1..Len(text) :
                      /\ CharAt(text, i) = "\n"
                      /\ \A j \in 1..(i - 1) : CharAt(text, j) # "\n"
         IN  <<SubSeq(text, 1, i - 1)>> \o SplitLines(SubSeq(text, i + 1, Len(text)))

NonEmpty(line) == Len(line) > 0

\* the lines after the header line, blank ones left out
DayLines(text) == SelectSeq(Tail(SplitLines(text)), NonEmpty)

\* the first line announces the coordinates and the day count asked for
HeaderAnnounces(c) ==
    SplitLines(result[c])[1]
        = "Weather forecast for (" \o FloatStr(args[c].latitude) \o ", "
          \o FloatStr(args[c].longitude) \o ") - " \o IntStr(args[c].days) \o " day(s):"

\* one line per day of the upstream response, in its order, each with that
\* day's date, condition, WMO code, temperatures and precipitation
OneLinePerUpstreamDay(c) ==
    LET daily == ReplyDaily(c)
        lines == DayLines(result[c])
    IN  /\ Len(lines) = Len(daily["time"].a)
        /\ \A k \in 1..Len(lines) :
              /\ Contains(lines[k], daily["time"].a[k].s \o ": ")
              /\ Contains(lines[k],
                          weather_code_to_conditions(PyInt(daily["weather_code"].a[k]).val))
              /\ Contains(lines[k],
                          "(WMO " \o IntStr(PyInt(daily["weather_code"].a[k]).val) \o ")")
              /\ Contains(lines[k],
                          FloatStr(PyFloat(daily["temperature_2m_min"].a[k]).val)
                              \o "degC - "
                              \o FloatStr(PyFloat(daily["temperature_2m_max"].a[k]).val)
                              \o "degC")
              /\ Contains(lines[k],
                          "Precipitation: "
                              \o FloatStr(PyFloat(daily["precipitation_sum"].a[k]).val)
                              \o " mm")

\* C8 as stated: on success get_forecast returns a header line followed by
\* exactly one line per day of the upstream response, in input order, each
\* with that day's date, condition, WMO code, temperatures and
\* precipitation, and the number of day lines is the day count the header
\* announces.
C8_Original ==
    \A c \in Calls :
        (Done(c) /\ IsForecastCall(c) /\ thrown[c] = "") =>
            /\ HeaderAnnounces(c)
            /\ OneLinePerUpstreamDay(c)
            /\ Len(DayLines(result[c])) = args[c].days

\* The part of C8 that does not count the lines against the header: the
\* header, and one line per day of the upstream response.
C8_LinesFollowResponse ==
    \A c \in Calls :
        (Done(c) /\ IsForecastCall(c) /\ thrown[c] = "") =>
            /\ HeaderAnnounces(c)
            /\ OneLinePerUpstreamDay(c)

\* C9: an invocation issues at most one HTTP request (one when its inputs
\* are valid, none when they are not), returns only once that request was
\* answered or failed, and a failed request is not issued again: the
\* failure comes back at once as an error string.
C9_SingleRequest ==
    \A c \in Calls :
        /\ Len(requests[c]) <= 1
        /\ Started(c) => Len(requests[c]) = (IF InvalidInput(args[c]) THEN 0 ELSE 1)
        /\ (Done(c) /\ requests[c] # <<>>) => reply[c] # NoReply
        /\ (Done(c) /\ (reply[c].kind = "transport" \/ Non2xx(reply[c]))) =>
              /\ Len(requests[c]) = 1
              /\ StartsWith(result[c], "Error: ")

\* a GET that timed out was answered with an error string after one request
C9_Witness ==
    /\ Done(1)
    /\ reply[1] = Transport("ReadTimeout", "")
    /\ Len(requests[1]) = 1
    /\ result[1] = "Error: An unexpected error occurred - "

\* the handler's return as one record
Outcome(c) ==
    [text |-> result[c], level |-> logged[c], raised |-> raised[c],
     exc |-> thrown[c], val |-> returned[c]]

\* C10: under every interleaving of concurrent invocations over the shared
\* client, what an invocation returns is determined by its own arguments and
\* the reply to its own request, its request carries its own parameters,
\* and the client's state stays as constructed.
C10_Independent ==
    /\ client = NewClient
    /\ \A c \in Calls :
          /\ requests[c] # <<>> =>
                /\ requests[c][1].latitude = args[c].latitude
                /\ requests[c][1].longitude = args[c].longitude
                /\ IsForecastCall(c) => requests[c][1].forecast_days = args[c].days
          /\ Done(c) => Outcome(c) = Tool(args[c], reply[c])
          /\ \A d \in Calls :
                (Done(c) /\ Done(d) /\ args[c] = args[d] /\ reply[c] = reply[d]) =>
                    result[c] = result[d]

\* call 2 completed with its own forecast while call 1, answered with a 503
\* for other arguments, was still suspended
C10_Witness ==
    /\ pc[1] = "awaiting" /\ IsCurrentCall(1) /\ reply[1].status = 503
    /\ Done(2) /\ IsForecastCall(2) /\ thrown[2] = ""
    /\ Len(returned[2].forecasts) = MaxDays

\* the value of the last --transport flag of a command line, written
\* "--transport value" or "--transport=value"
FlagGiven(av) ==
    \E i \in 1..Len(av) : av[i] = "--transport" \/ StartsWith(av[i], "--transport=")

FlagValue(av) ==
    LET i == CHOOSE i \in 1..Len(av) :
                 /\ av[i] = "--transport" \/ StartsWith(av[i], "--transport=")
                 /\ \A j \in (i + 1)..Len(av) :
                        ~(av[j] = "--transport" \/ StartsWith(av[j], "--transport="))
    IN  IF av[i] = "--transport" THEN av[i + 1]
        ELSE SubSeq(av[i], Len("--transport=") + 1, Len(av[i]))

\* the transport the flag, the environment variable and the default select
Selected ==
    IF FlagGiven(argv) THEN FlagValue(argv)
    ELSE IF "MCP_TRANSPORT" \in DOMAIN environ THEN environ["MCP_TRANSPORT"]
    ELSE "stdio"

\* _parse_args has returned
ParsedArgs == server.state \in {"parsed", "running"}

\* C11 as stated: the transport _parse_args returns is the --transport flag
\* when given, otherwise MCP_TRANSPORT when set, otherwise "stdio", and it is
\* always one of "stdio", "sse" and "streamable-http".
C11_Original ==
    ParsedArgs =>
        /\ server.transport = Selected
        /\ server.transport \in {"stdio", "sse", "streamable-http"}

\* The part of C11 that holds: the order of selection, flag before
\* environment variable before "stdio".
C11_SelectionOrder ==
    ParsedArgs => server.transport = Selected

\* C11, where it fails: no flag, MCP_TRANSPORT set to a name that is not a
\* transport, and _parse_args has returned that name.
C11_ReturnsUnknownTransport ==
    /\ ParsedArgs
    /\ ~FlagGiven(argv)
    /\ server.transport = "websocket"

\* C12: coordinates within the limits, the limits -90, 90, -180 and 180
\* included, pass validation, and with them (and 1 <= days <= 16 for
\* get_forecast, 1 and 16 included) both client methods issue the GET, whose
\* parameters carry the same latitude, longitude and forecast_days.
C12_BoundaryValid ==
    \A c \in Calls :
        (/\ Started(c)
         /\ -900 <= args[c].latitude /\ args[c].latitude <= 900
         /\ -1800 <= args[c].longitude /\ args[c].longitude <= 1800
         /\ IsForecastCall(c) => (1 <= args[c].days /\ args[c].days <= 16)) =>
            /\ _validate_coordinates(args[c].latitude, args[c].longitude) = Ok("None")
            /\ Len(requests[c]) = 1
            /\ requests[c][1].latitude = args[c].latitude
            /\ requests[c][1].longitude = args[c].longitude
            /\ IsForecastCall(c) => requests[c][1].forecast_days = args[c].days

C12_Witness ==
    /\ pc[1] = "awaiting" /\ IsForecastCall(1)
    /\ args[1].latitude = -900 /\ args[1].longitude = 1800 /\ args[1].days = 16
    /\ requests[1] = <<[latitude |-> -900, longitude |-> 1800,
                        daily |-> "temperature_2m_max,temperature_2m_min,precipitation_sum,weather_code",
                        timezone |-> "UTC", forecast_days |-> 16]>>

\* C13 as stated: a handler logs a failure at warning level if and only if
\* the input was invalid (coordinates or day count out of range); every
\* other failure - a status that is not 2xx, an error envelope, an
\* unexpected error, a response field that cannot be parsed - is logged at
\* error level.
C13_Original ==
    \A c \in Calls :
        (Done(c) /\ Failed(c)) =>
            /\ logged[c] = "warning" <=> InvalidInput(args[c])
            /\ ~InvalidInput(args[c]) => logged[c] = "error"

\* What the handlers do: the level is warning exactly for a ValueError, the
\* one of validation or one raised while reading the response (int(),
\* float(), fromisoformat(), response.json()), and error for every other
\* exception; invalid input is always logged at warning level.
C13_WarningIsValueError ==
    \A c \in Calls :
        (Done(c) /\ Failed(c)) =>
            /\ logged[c] = "warning" <=> thrown[c] \in {"ValueError", "JSONDecodeError"}
            /\ logged[c] = "error" <=> thrown[c] \notin {"ValueError", "JSONDecodeError"}
            /\ InvalidInput(args[c]) => logged[c] = "warning"

\* C13, where it fails: valid input, a 200 response whose weather_code is
\* not a number, and the failure to parse it logged at warning level.
C13_ParseFailureWarned ==
    /\ Done(1) /\ IsCurrentCall(1) /\ ~InvalidInput(args[1])
    /\ reply[1].kind = "http" /\ reply[1].status = 200 /\ reply[1].body.t = "json"
    /\ StartsWith(result[1], "Error: invalid literal for int() with base 10")
    /\ logged[1] = "warning"

\* the reply is a 200 response whose body has a daily object with a time
\* array, and is not an error envelope
HasTimeArray(r) ==
    /\ r.kind = "http" /\ r.status = 200
    /\ r.body.t = "json" /\ r.body.v.t = "obj"
    /\ ~ErrorEnvelope(r)
    /\ "daily" \in DOMAIN r.body.v.o
    /\ r.body.v.o["daily"].t = "obj"
    /\ "time" \in DOMAIN r.body.v.o["daily"].o
    /\ r.body.v.o["daily"].o["time"].t = "arr"

\* some day of the time array cannot be mapped: one of the parallel arrays
\* is missing, is not an array or is shorter than the time array, or a value
\* of that day cannot be converted
MapFails(daily) ==
    \E k \in 1..Len(daily["time"].a) :
        \/ ~date_fromisoformat(daily["time"].a[k]).ok
        \/ \E key \in {"temperature_2m_max", "temperature_2m_min",
                       "precipitation_sum", "weather_code"} :
              \/ key \notin DOMAIN daily
              \/ daily[key].t # "arr"
              \/ Len(daily[key].a) < k
              \/ IF key = "weather_code" THEN ~PyInt(daily[key].a[k]).ok
                 ELSE ~PyFloat(daily[key].a[k]).ok

\* C14: the output of the get_forecast handler is all or nothing.  When a
\* day of the response cannot be mapped the handler returns an "Error: "
\* string alone, with no header and no line of a day mapped before the
\* failure; a returned string with a forecast header has a line for every
\* entry of the response's time array.
C14_AllOrNothing ==
    \A c \in Calls :
        (Done(c) /\ IsForecastCall(c) /\ ~InvalidInput(args[c]) /\ HasTimeArray(reply[c])) =>
            LET daily == ReplyDaily(c)
                time == daily["time"].a
            IN  /\ MapFails(daily) =>
                      /\ StartsWith(result[c], "Error: ")
                      /\ Len(SplitLines(result[c])) = 1
                      /\ ~Contains(result[c], "Weather forecast for")
                      /\ \A k \in 1..Len(time) :
                            time[k].t = "str" =>
                                ~Contains(result[c], "  " \o time[k].s \o ": ")
                /\ Contains(result[c], "Weather forecast for") =>
                      /\ ~MapFails(daily)
                      /\ Len(DayLines(result[c])) = Len(time)
                      /\ \A k \in 1..Len(time) :
                            StartsWith(DayLines(result[c])[k], "  " \o time[k].s \o ": ")

\* the last day of a response has a weather code that is not a number: the
\* days before it were mapped, and the handler returned the error alone
C14_Witness ==
    /\ Done(1) /\ IsForecastCall(1) /\ ~InvalidInput(args[1])
    /\ reply[1] = Http(200, JsonBody(DailyWithCode(MaxDays, JStr("abc"))))
    /\ DailyForecastAt(reply[1].body.v.o["daily"], 0).ok
    /\ MapFails(ReplyDaily(1))
    /\ result[1] = "Error: invalid literal for int() with base 10: 'abc'"

====
